---- MODULE Spec2Model ----
(***************************************************************************)
(* Wake-T: tracking calls of the beamline elements (PlasmaStage,           *)
(* PlasmaRamp) of wake_t/beamline_elements.py, with the field models of    *)
(* wake_t/wakefields.py they construct.                                    *)
(*                                                                         *)
(* Two specifications are given.                                           *)
(*   Spec      the three public tracking methods called from outside, one  *)
(*             call after the other on the same bunch and laser.           *)
(*   SpecOrch  the numerical orchestration (beamline_elements.py lines     *)
(*             171-220 and 477-524) entered with a field model and a       *)
(*             heuristic time step dt > 0, as a function of its inputs,    *)
(*             followed by further calls of the three methods.             *)
(*   SpecField the grid-interpolated field models of wake_t/wakefields.py     *)
(*             used on their own: a model is constructed, checked for a    *)
(*             refresh and evaluated.                                      *)
(*   SpecBunch the generators of wake_t/utilities/bunch_generation.py.     *)
(* Times, distances and xi_c are exact rationals <<num, den>>; a particle  *)
(* column is [id, t]: the column it started in and the time it has been    *)
(* advanced by so far.                                                     *)
(***************************************************************************)
EXTENDS Integers, Sequences, FiniteSets, TLC

(* ------------------------------ bounds --------------------------------- *)
MaxPart == 3
MaxProc == 4
MaxSteps == 3
MaxCalls == 2
MaxLen == 2
CpuCount == 2
MaxTs == 3
GridMax == 2

(* --------------------------- program constants -------------------------- *)
\* scipy.constants.c, in model units
c == 3
\* Wakefield.Kx(self, x, y, xi, px, py, pz, q, gamma, t): parameters after self
KxParams == 9
\* arguments of the call WF.Kx(beam.x, ..., beam.pz, gamma, 0)
KxArgsPassed == 8
\* PlasmaRampBlowoutField.__init__(self, density_function): parameters after self
RampFieldParams == 1
\* arguments of the call PlasmaRampBlowoutField(length, dens_down, dens_top,
\* position_down, ramp_type=, profile=)
RampFieldArgsPassed == 6

(* ------------------------------ rationals ------------------------------- *)
RECURSIVE GCD(_, _)
GCD(a, b) == IF b = 0 THEN a ELSE GCD(b, a % b)

Abs(n) == IF n < 0 THEN -n ELSE n

\* n/d in lowest terms with a positive denominator (d # 0)
Rat(n, d) ==
    LET g == GCD(Abs(n), Abs(d))
        sg == IF d < 0 THEN -1 ELSE 1
    IN  <<(sg * n) \div g, (sg * d) \div g>>

RatInt(n) == <<n, 1>>
RatAdd(a, b) == Rat(a[1] * b[2] + b[1] * a[2], a[2] * b[2])
RatSub(a, b) == Rat(a[1] * b[2] - b[1] * a[2], a[2] * b[2])
RatMul(a, b) == Rat(a[1] * b[1], a[2] * b[2])
RatDiv(a, b) == Rat(a[1] * b[2], a[2] * b[1])
RatLeq(a, b) == a[1] * b[2] <= b[1] * a[2]
RatLt(a, b) == a[1] * b[2] < b[1] * a[2]
\* int(x) of a non-negative rational x
RatFloor(a) == a[1] \div a[2]

Max(a, b) == IF a >= b THEN a ELSE b

(* ------------------------------- state --------------------------------- *)
VARIABLES
    pc,            \* position of the running call, "idle" between calls
    arg,           \* the arguments of the running call and the element's fields
    beam,          \* the caller's ParticleBunch: [ps, prop]
    laser,         \* the caller's LaserPulse: [xi_c, prop, bw]
    beam0,         \* the bunch as it was when the running call was entered
    laser0,        \* the laser as it was when the running call was entered
    WF,            \* class of the field model bound to WF / field, or "unset"
    derived,       \* TRUE when E, E_p and K are bound (analytic tracking)
    v_w,           \* local v_w of track_beam_analytically
    pool,          \* the call's worker pool: "none", "open", "closed"
    loc,           \* locals of the numerical orchestration
    matrix_list,   \* the list of column blocks
    inflight,      \* blocks handed to workers and not yet returned
    results,       \* blocks the workers have returned in the running step
    beam_list,     \* the snapshots computed so far
    exc,           \* the exception the call raised, or "none"
    ret,           \* number of snapshots in the returned list, -1 if none
    fld,           \* the parent's WakefieldFromPICSimulation, or NoFld
    sent,          \* the PIC-sourced model as pickled with the running step
    used,          \* per block, the grid its worker integrated against
    chk,           \* refresh checks issued: how many, the last one's step
                   \* and time
    cf,            \* each process's copy of a NonLinearColdFluidWakefield
    evl,           \* the last evaluation of a field model and its result
    gen,           \* the bunch generator called, its arguments and result
    hist           \* bookkeeping: calls entered, calls returned (ok) and the
                   \* sum of their lengths (sumL), the bunch's first
                   \* prop_distance, writes of the bunch (bw) and of the laser
                   \* (lw) in the running call, pools left open (leaked)

vars == <<pc, arg, beam, laser, beam0, laser0, WF, derived, v_w, pool, loc,
          matrix_list, inflight, results, beam_list, exc, ret, hist, fld,
          sent, used, chk, cf, evl, gen>>

\* the variables of the field models and of the bunch generators
fvars == <<fld, sent, used, chk, cf, evl, gen>>

Methods == {"stage_rk", "stage_an", "ramp_rk"}

\* mode strings a caller may pass
ModeInputs == {"Blowout", "CustomBlowout", "FromPICCode", "Linear",
               "LinearAlberto", "FromOsiris2D", "FromOsiris3D", "Bogus"}

\* modes of the dispatch of PlasmaStage.track_beam_numerically_RK_parallel
RKModes == {"Blowout", "CustomBlowout", "FromPICCode"}

\* modes of the dispatch of PlasmaStage.track_beam_analytically
AnModes == {"Blowout", "CustomBlowout", "Linear", "LinearAlberto",
            "FromOsiris2D", "FromOsiris3D"}

\* field model classes that wake_t.wakefields defines
WakefieldClasses == {"CustomBlowoutWakefield", "WakefieldFromPICSimulation",
                     "NonLinearColdFluidWakefield", "PlasmaRampBlowoutField",
                     "PlasmaLensField", "PlasmaLensFieldRelativistic"}

\* methods that class PlasmaStage defines
PlasmaStageMethods == {"__init__", "get_matched_beta", "_gamma",
                       "track_beam_numerically_RK_parallel",
                       "_get_optimized_dt", "track_beam_analytically",
                       "_get_beam_at_specified_time_step_from_paper_final"}

NoLoc == [t_final |-> <<0, 1>>, t_step |-> <<0, 1>>, dt |-> <<0, 1>>,
          it_per_step |-> 0, iterations |-> 0, dt_adjusted |-> <<0, 1>>,
          num_proc |-> 0, part_per_proc |-> 0, s |-> 0]

NoArg == [method |-> "none", mode |-> "none", steps |-> 0, n_proc |-> 0,
          non_rel |-> FALSE, length |-> 0, vpic |-> FALSE, filt |-> FALSE,
          auto |-> FALSE]

(* --------------------------- ParticleBunch ------------------------------ *)
\* a bunch of n particles that has not been tracked yet
NewBunch(n, prop) ==
    [ps |-> [i \in 1..n |-> [id |-> i, t |-> <<0, 1>>]], prop |-> prop]

\* ParticleBunch(q, x, y, xi, px, py, pz, prop_distance=...)
ParticleBunch(ps, prop) == [ps |-> ps, prop |-> prop]

set_phase_space(b, ps) == [b EXCEPT !.ps = ps]

increase_prop_distance(b, len) == [b EXCEPT !.prop = RatAdd(@, RatInt(len))]

(* ----------------------------- LaserPulse ------------------------------- *)
\* fraction of c; the laser's own parameter stands for its dependence on n_p
get_group_velocity(l) == l.bw

laser_increase_prop_distance(l, len) == [l EXCEPT !.prop = RatAdd(@, RatInt(len))]

(* ------------------------ grid interpolation --------------------------- *)
\* what an evaluator hands back: a value, or the exception it raised
Value(v) == [raised |-> "none", val |-> v]

Raised(e) == [raised |-> e, val |-> <<0, 1>>]

\* an attribute that has not been assigned
NoInterp == [axes |-> <<>>, data |-> <<0, 1>>]

\* RegularGridInterpolator(axes, data, fill_value=0, bounds_error=False);
\* an axis is given by its lowest and its highest point
RegularGridInterpolator(axes, data) == [axes |-> axes, data |-> data]

\* the interpolator called at the point R: the data inside the axes, the
\* fill value outside of them
Interpolate(I, R) ==
    IF \A k \in 1..Len(I.axes) :
           /\ RatLeq(RatInt(I.axes[k][1]), R[k])
           /\ RatLeq(R[k], RatInt(I.axes[k][2]))
    THEN I.data
    ELSE <<0, 1>>

\* np.sqrt(np.square(x)+np.square(y)) for the points the model evaluates at
Radius(x, y) == CHOOSE r \in 0..(Abs(x) + Abs(y)) : r * r = x * x + y * y

\* np.sin(np.arctan2(x, y))
SinTheta(x, y) == IF Radius(x, y) = 0 THEN <<0, 1>> ELSE Rat(x, Radius(x, y))

\* np.cos(np.arctan2(x, y))
CosTheta(x, y) == IF Radius(x, y) = 0 THEN <<1, 1>> ELSE Rat(y, Radius(x, y))

\* np.where(seq == v)[0][0]
IndexOf(seq, v) ==
    CHOOSE i \in 1..Len(seq) : seq[i] = v /\ \A j \in 1..(i - 1) : seq[j] # v

\* seq[::-1]
Reverse(seq) == [i \in 1..Len(seq) |-> seq[Len(seq) + 1 - i]]

SetMax(S) == CHOOSE m \in S : \A k \in S : k <= m

SetMin(S) == CHOOSE m \in S : \A k \in S : m <= k

(* ---------------- WakefieldFromPICSimulation (wakefields.py) ------------ *)
\* The simulation behind self.dc: its geometry and the time between two of
\* its steps (1/den).
Simulations == [geom : {"3D", "thetaMode"}, den : {4, 9}]

\* E_z_field.GetTimeSteps(): the steps the simulation has written
GetTimeSteps == [i \in 1..MaxTs |-> 10 * i]

\* E_z_field.GetTimeInUnits("s", ts)
GetTimeInUnits(den, ts) == Rat(ts - 10, 10 * den)

\* GetAllFieldData(self.current_ts, ...): the data of one field at one step
GetAllFieldData(name, ts) ==
    RatInt(ts + (CASE name = "Ez" -> 1 [] name = "Wx" -> 2 [] OTHER -> 3))

\* the axes of the simulation box: (x, y, xi) or (r, xi)
GetAxes(geom) ==
    IF geom = "3D"
    THEN <<<<-GridMax, GridMax>>, <<-GridMax, GridMax>>, <<0, GridMax>>>>
    ELSE <<<<0, GridMax>>, <<0, GridMax>>>>

NoFld == [geom |-> "none", den |-> 1, b_w |-> <<0, 1>>,
          reverse_tracking |-> FALSE, current_ts |-> 0, timesteps |-> <<>>,
          timesteps_in_sec |-> <<>>, E_z |-> NoInterp, W_x |-> NoInterp,
          K_x |-> NoInterp, loads |-> 0]

\* the same without the cut of the two lists in reverse tracking
create_fields_NoRestrict(f) ==
    LET g == [f EXCEPT
                !.E_z = RegularGridInterpolator(GetAxes(f.geom),
                            GetAllFieldData("Ez", f.current_ts)),
                !.W_x = RegularGridInterpolator(GetAxes(f.geom),
                            GetAllFieldData("Wx", f.current_ts)),
                !.K_x = RegularGridInterpolator(GetAxes(f.geom),
                            GetAllFieldData("dx Wx", f.current_ts)),
                !.loads = @ + 1]
        ts == GetTimeSteps
        secs == [i \in 1..Len(ts) |-> GetTimeInUnits(f.den, ts[i])]
    IN  IF Len(f.timesteps) # 0 THEN g
        ELSE [g EXCEPT !.timesteps = ts, !.timesteps_in_sec = secs]

\* lines 132-197: the interpolators of the current step and, the first time,
\* the list of steps and the list of their times
create_fields(f) ==
    LET g == [f EXCEPT
                !.E_z = RegularGridInterpolator(GetAxes(f.geom),
                            GetAllFieldData("Ez", f.current_ts)),
                !.W_x = RegularGridInterpolator(GetAxes(f.geom),
                            GetAllFieldData("Wx", f.current_ts)),
                !.K_x = RegularGridInterpolator(GetAxes(f.geom),
                            GetAllFieldData("dx Wx", f.current_ts)),
                !.loads = @ + 1]
        ts == GetTimeSteps
        secs == [i \in 1..Len(ts) |-> GetTimeInUnits(f.den, ts[i])]
    IN  IF Len(f.timesteps) # 0 THEN g
        ELSE IF ~f.reverse_tracking
        THEN [g EXCEPT !.timesteps = ts, !.timesteps_in_sec = secs]
        ELSE LET current_ts_index == IndexOf(ts, f.current_ts) IN
             [g EXCEPT
                !.timesteps = SubSeq(ts, 1, current_ts_index),
                !.timesteps_in_sec =
                    Reverse(SubSeq(secs, 1, current_ts_index))]

\* lines 73-104: __init__ and _load_fields
WakefieldFromPICSimulation(sim, driver, timestep, reverse_tracking) ==
    create_fields([NoFld EXCEPT
                     !.geom = sim.geom,
                     !.den = sim.den,
                     !.b_w = get_group_velocity(driver),
                     !.reverse_tracking = reverse_tracking,
                     !.current_ts = timestep])

\* the same without the comparison with the current step
check_if_update_fields_NoCompare(f, time) ==
    LET possible_ts == {i \in 1..Len(f.timesteps_in_sec) :
                           RatLt(f.timesteps_in_sec[i], time)}
    IN  IF Cardinality(possible_ts) > 1
        THEN IF ~f.reverse_tracking
             THEN create_fields(
                      [f EXCEPT !.current_ts = f.timesteps[SetMin(possible_ts)]])
             ELSE create_fields(
                      [f EXCEPT !.current_ts = f.timesteps[SetMax(possible_ts)]])
        ELSE f

\* lines 107-130
check_if_update_fields(f, time) ==
    LET possible_ts == {i \in 1..Len(f.timesteps_in_sec) :
                           RatLt(f.timesteps_in_sec[i], time)}
        current_ts_index == IndexOf(f.timesteps, f.current_ts)
    IN  IF Cardinality(possible_ts) > 1
        THEN IF ~f.reverse_tracking
             THEN LET requested_ts_index == SetMax(possible_ts) IN
                  IF current_ts_index < requested_ts_index
                  THEN create_fields(
                           [f EXCEPT !.current_ts = f.timesteps[requested_ts_index]])
                  ELSE f
             ELSE LET requested_ts_index == SetMin(possible_ts) IN
                  IF current_ts_index > requested_ts_index
                  THEN create_fields(
                           [f EXCEPT !.current_ts = f.timesteps[requested_ts_index]])
                  ELSE f
        ELSE f

\* xi + (1-self.b_w)*ct.c*t
Shifted(f, xi, t) ==
    RatAdd(xi, RatMul(RatSub(RatInt(1), f.b_w), RatMul(RatInt(c), t)))

\* lines 199-208: theta is bound in the thetaMode branch only
PICWx(f, x, y, xi, t) ==
    IF f.geom = "3D"
    THEN Raised("UnboundLocalError")
    ELSE Value(RatMul(Interpolate(f.W_x, <<RatInt(Radius(x, y)),
                                            Shifted(f, xi, t)>>),
                      SinTheta(x, y)))

\* lines 210-218
PICWy(f, x, y, xi, t) ==
    IF f.geom = "3D"
    THEN Raised("UnboundLocalError")
    ELSE Value(RatMul(Interpolate(f.W_x, <<RatInt(Radius(x, y)),
                                            Shifted(f, xi, t)>>),
                      CosTheta(x, y)))

\* lines 220-227
PICWz(f, x, y, xi, t) ==
    IF f.geom = "3D"
    THEN Value(Interpolate(f.E_z, <<RatInt(x), RatInt(y), Shifted(f, xi, t)>>))
    ELSE Value(Interpolate(f.E_z, <<RatInt(Radius(x, y)), Shifted(f, xi, t)>>))

\* lines 229-237
PICKx(f, x, y, xi, t) ==
    IF f.geom = "3D"
    THEN Value(Interpolate(f.K_x, <<RatInt(x), RatInt(y), Shifted(f, xi, t)>>))
    ELSE Value(Interpolate(f.K_x, <<RatInt(Radius(x, y)), Shifted(f, xi, t)>>))

Components == {"Wx", "Wy", "Wz", "Kx"}

PICEval(comp, f, x, y, xi, t) ==
    CASE comp = "Wx" -> PICWx(f, x, y, xi, t)
      [] comp = "Wy" -> PICWy(f, x, y, xi, t)
      [] comp = "Wz" -> PICWz(f, x, y, xi, t)
      [] comp = "Kx" -> PICKx(f, x, y, xi, t)

(* --------------- NonLinearColdFluidWakefield (wakefields.py) ------------ *)
\* the density profiles a model is built with: uniform, or a step up at
\* z = RampEdge
DensityProfiles == {"flat", "step"}

RampEdge == 2

\* self.density_function(z_beam)
density_function(profile, z) ==
    IF profile = "flat" THEN 1
    ELSE IF RatLt(z, RatInt(RampEdge)) THEN 1 ELSE 2

\* (z_arr*s_d, r) with xi_min = 0, xi_max = r_max = n_xi = n_r = GridMax:
\* z_arr runs from xi_max - (n_xi-1)*dz to xi_max, r from 0 to r_max
ColdFluidAxes ==
    <<<<GridMax - (GridMax - 1) * (GridMax \div GridMax), GridMax>>,
      <<0, GridMax>>>>

\* the grid the ODE gives for the density n_p and the distance to the focus
ColdFluidData(name, n_p, dist_z_foc) ==
    RatAdd(RatInt(100 * n_p
                  + (CASE name = "Ez" -> 1 [] name = "Wx" -> 2 [] OTHER -> 3)),
           dist_z_foc)

\* lines 241-253; current_n_p = 0 stands for None
NonLinearColdFluidWakefield(profile, driver_evolution) ==
    [density_function |-> profile, driver_evolution |-> driver_evolution,
     current_t |-> <<-1, 1>>, current_n_p |-> 0, E_z |-> NoInterp,
     W_x |-> NoInterp, K_x |-> NoInterp, fresh |-> FALSE, by |-> "none"]

\* the same without the test of the time
calculate_wakefields_NoTimeTest(w, proc, xi, t) ==
    LET w1 == [w EXCEPT !.current_t = t, !.fresh = FALSE]
        z_beam == RatAdd(RatMul(t, RatInt(c)), xi)
        n_p == density_function(w.density_function, z_beam)
        dist_z_foc == IF w.driver_evolution
                      THEN RatSub(<<0, 1>>, RatMul(RatInt(c), t))
                      ELSE <<0, 1>>
    IN  IF n_p = w1.current_n_p /\ ~w1.driver_evolution THEN w1
        ELSE [w1 EXCEPT
                !.current_n_p = n_p,
                !.E_z = RegularGridInterpolator(ColdFluidAxes,
                            ColdFluidData("Ez", n_p, dist_z_foc)),
                !.W_x = RegularGridInterpolator(ColdFluidAxes,
                            ColdFluidData("Wx", n_p, dist_z_foc)),
                !.K_x = RegularGridInterpolator(ColdFluidAxes,
                            ColdFluidData("Kx", n_p, dist_z_foc)),
                !.fresh = TRUE,
                !.by = proc]

\* lines 259-349: __calculate_wakefields run by the process proc for a
\* particle at xi; fresh tells whether this call computed the grid anew
calculate_wakefields(w, proc, xi, t) ==
    LET w1 == [w EXCEPT !.current_t = t, !.fresh = FALSE]
        z_beam == RatAdd(RatMul(t, RatInt(c)), xi)
        n_p == density_function(w.density_function, z_beam)
        dist_z_foc == IF w.driver_evolution
                      THEN RatSub(<<0, 1>>, RatMul(RatInt(c), t))
                      ELSE <<0, 1>>
    IN  IF w.current_t = t THEN [w EXCEPT !.fresh = FALSE]
        ELSE IF n_p = w1.current_n_p /\ ~w1.driver_evolution THEN w1
        ELSE [w1 EXCEPT
                !.current_n_p = n_p,
                !.E_z = RegularGridInterpolator(ColdFluidAxes,
                            ColdFluidData("Ez", n_p, dist_z_foc)),
                !.W_x = RegularGridInterpolator(ColdFluidAxes,
                            ColdFluidData("Wx", n_p, dist_z_foc)),
                !.K_x = RegularGridInterpolator(ColdFluidAxes,
                            ColdFluidData("Kx", n_p, dist_z_foc)),
                !.fresh = TRUE,
                !.by = proc]

\* lines 351-371: the value an evaluator of the model w returns at
\* (x, y, xi), after its call of __calculate_wakefields
ColdFluidEval(comp, w, x, y, xi) ==
    LET R == <<xi, RatInt(Radius(x, y))>> IN
    IF w.E_z = NoInterp THEN Raised("AttributeError")
    ELSE CASE comp = "Wx" -> Value(RatMul(Interpolate(w.W_x, R), SinTheta(x, y)))
           [] comp = "Wy" -> Value(RatMul(Interpolate(w.W_x, R), CosTheta(x, y)))
           [] comp = "Wz" -> Value(Interpolate(w.E_z, R))
           [] comp = "Kx" -> Value(Interpolate(w.K_x, R))

\* the interpolators of a field model
Grid(f) == <<f.E_z, f.W_x, f.K_x>>

\* the processes that hold a copy of a field model
Procs == {"parent", "worker"}

\* no cold-fluid model
NoW == [density_function |-> "none", driver_evolution |-> FALSE,
        current_t |-> <<-1, 1>>, current_n_p |-> 0, E_z |-> NoInterp,
        W_x |-> NoInterp, K_x |-> NoInterp, fresh |-> FALSE, by |-> "none"]

\* no evaluation yet; pre_t, pre_n_p and pre_grid are the cold-fluid copy's
\* current_t, current_n_p and interpolators before the call, fresh and grid
\* what the call left
NoEvl == [model |-> "none", proc |-> "none", comp |-> "none", x |-> 0,
          y |-> 0, xi |-> <<0, 1>>, t |-> <<0, 1>>, out |-> Raised("pending"),
          pre_t |-> <<-1, 1>>, pre_n_p |-> 0, pre_grid |-> <<>>,
          fresh |-> FALSE, grid |-> <<>>]

\* no refresh check has been issued
NoChk == [n |-> 0, s |-> -1, time |-> <<-1, 1>>]

(* ------------- bunch generation (utilities/bunch_generation.py) --------- *)
\* an argument left at its default None
None == 0

\* a float written as m * 10^e with m an exact rational
Sci(m, e) == [m |-> m, e |-> e]

\* a/n for a float a and an integer n
SciDivInt(a, n) == [a EXCEPT !.m = RatDiv(@, RatInt(n))]

\* np.sum of an array of floats of one exponent e
RECURSIVE SciSum(_, _)
SciSum(q, e) ==
    IF q = <<>> THEN Sci(<<0, 1>>, e)
    ELSE Sci(RatAdd(Head(q).m, SciSum(Tail(q), e).m), e)

\* a Twiss beta: where it comes from and the value it is computed from
Beta(from, val) == [from |-> from, val |-> val]

NoOut == [raised |-> "pending", q |-> <<>>, a_x |-> 0, a_y |-> 0,
          b_x |-> Beta("none", Sci(<<0, 1>>, 0)),
          b_y |-> Beta("none", Sci(<<0, 1>>, 0)),
          xi |-> <<>>, prop |-> <<0, 1>>]

\* the same with the total charge given to every particle
get_gaussian_bunch_from_twiss_FullQ(a_x, a_y, b_x, b_y, xi_c, q_tot, n_part) ==
    LET q_C == Sci(RatInt(q_tot), -12)
    IN  [NoOut EXCEPT
           !.raised = "none",
           !.q = [i \in 1..n_part |-> q_C],
           !.a_x = a_x, !.a_y = a_y, !.b_x = b_x, !.b_y = b_y,
           !.xi = [i \in 1..n_part |-> RatInt(xi_c)]]

\* lines 12-95: the Twiss parameters the coordinates are drawn with, and
\* the charges
get_gaussian_bunch_from_twiss(a_x, a_y, b_x, b_y, xi_c, q_tot, n_part) ==
    LET q_C == Sci(RatInt(q_tot), -12)
    IN  [NoOut EXCEPT
           !.raised = "none",
           !.q = [i \in 1..n_part |-> SciDivInt(q_C, n_part)],
           !.a_x = a_x, !.a_y = a_y, !.b_x = b_x, !.b_y = b_y,
           !.xi = [i \in 1..n_part |-> RatInt(xi_c)]]

\* lines 97-144: b_x = s_x**2*ene/en_x
get_gaussian_bunch_from_size(en_x, en_y, s_x, s_y, ene, xi_c, q_tot, n_part) ==
    get_gaussian_bunch_from_twiss(0, 0,
        Beta("size", Sci(Rat(s_x * s_x * ene, en_x), 0)),
        Beta("size", Sci(Rat(s_y * s_y * ene, en_y), 0)),
        xi_c, q_tot, n_part)

\* ge.matched_plasma_beta_function(beam_ene, plasma_dens, k_x): from k_x
\* when it is given, else from the density
matched_plasma_beta_function(ene, plasma_dens, k_x) ==
    IF k_x # None THEN Beta("k_x", Sci(Rat(ene, k_x), 0))
    ELSE Beta("n_p", Sci(RatDiv(RatInt(ene), plasma_dens.m), -plasma_dens.e))

\* lines 146-192: n_p*1e-6 is evaluated before the library is called
get_matched_bunch(ene, xi_c, q_tot, n_part, n_p, k_x) ==
    IF n_p = None
    THEN [NoOut EXCEPT !.raised = "TypeError"]
    ELSE LET b_m == matched_plasma_beta_function(ene, Sci(RatInt(n_p), -6), k_x)
         IN  get_gaussian_bunch_from_twiss(0, 0, b_m, b_m, xi_c, q_tot, n_part)

\* dr.read_beam(code_name, file_path): the files the model reads, each the
\* z and the charge of its particles
BeamFiles ==
    {[z |-> <<0>>, q |-> <<Sci(<<1, 1>>, -12)>>],
     [z |-> <<0, 4>>, q |-> <<Sci(<<1, 1>>, -12), Sci(<<3, 1>>, -12)>>],
     [z |-> <<1, 2, 6>>,
      q |-> <<Sci(<<1, 2>>, -12), Sci(<<1, 2>>, -12), Sci(<<2, 1>>, -12)>>]}

\* np.average(z, weights=q)
RECURSIVE WeightedSum(_, _)
WeightedSum(z, q) ==
    IF z = <<>> THEN <<0, 1>>
    ELSE RatAdd(RatMul(RatInt(Head(z)), Head(q).m),
                WeightedSum(Tail(z), Tail(q)))

Average(z, q) == RatDiv(WeightedSum(z, q), SciSum(q, -12).m)

\* lines 194-201
get_from_file(file, preserve_prop_dist) ==
    LET z_avg == Average(file.z, file.q)
    IN  [NoOut EXCEPT
           !.raised = "none",
           !.q = file.q,
           !.xi = [i \in 1..Len(file.z) |-> RatSub(RatInt(file.z[i]), z_avg)],
           !.prop = IF preserve_prop_dist THEN z_avg ELSE <<0, 1>>]

\* the arguments of a generator before any is chosen
NoIn == [a_x |-> 0, a_y |-> 0, b |-> 1, s_x |-> 1, ene |-> 100, xi_c |-> 0,
         q_tot |-> 1, n_part |-> 1, n_p |-> None, k_x |-> None,
         file |-> [z |-> <<>>, q |-> <<>>], preserve |-> FALSE]

NoGen == [fn |-> "none", in |-> NoIn, out |-> NoOut]

(* ------------------------------- Init ---------------------------------- *)
Init ==
    /\ pc = "idle"
    /\ arg = NoArg
    /\ \E p \in {0, 2} : beam = NewBunch(MaxPart, RatInt(p))
    /\ \E b \in {<<1, 2>>, <<2, 3>>} :
           laser = [xi_c |-> <<0, 1>>, prop |-> <<0, 1>>, bw |-> b]
    /\ beam0 = beam
    /\ laser0 = laser
    /\ WF = "unset"
    /\ derived = FALSE
    /\ v_w = <<0, 1>>
    /\ pool = "none"
    /\ loc = NoLoc
    /\ matrix_list = <<>>
    /\ inflight = {}
    /\ results = <<>>
    /\ beam_list = <<>>
    /\ exc = "none"
    /\ ret = -1
    /\ hist = [calls |-> 0, sumL |-> 0, prop_init |-> beam.prop, bw |-> 0,
               lw |-> 0, leaked |-> 0, ok |-> 0]
    /\ fld = NoFld
    /\ sent = NoFld
    /\ used = <<>>
    /\ chk = NoChk
    /\ cf = [p \in Procs |-> NoW]
    /\ evl = NoEvl
    /\ gen = NoGen

(* ------------------------- entering a call ------------------------------ *)
\* One of the three tracking methods is called on an element of length len.
\* n_proc = 0 stands for n_proc=None; vpic: VisualPIC is installed.
Call(m, md, st, np, nr, len, vp, fl, au) ==
    /\ pc \in {"idle", "done"}
    /\ hist.calls < MaxCalls
    /\ arg' = [method |-> m, mode |-> md, steps |-> st, n_proc |-> np,
               non_rel |-> nr, length |-> len, vpic |-> vp, filt |-> fl,
               auto |-> au]
    /\ pc' = CASE m = "stage_rk" -> "rk_dispatch"
               [] m = "stage_an" -> "an_dispatch"
               [] m = "ramp_rk" -> "ramp_dispatch"
    /\ beam0' = beam
    /\ laser0' = laser
    /\ WF' = "unset"
    /\ derived' = FALSE
    /\ v_w' = <<0, 1>>
    /\ pool' = "none"
    /\ loc' = NoLoc
    /\ matrix_list' = <<>>
    /\ inflight' = {}
    /\ results' = <<>>
    /\ beam_list' = <<>>
    /\ exc' = "none"
    /\ ret' = -1
    /\ hist' = [hist EXCEPT !.calls = @ + 1, !.bw = 0, !.lw = 0,
                            !.leaked = @ + (IF pool = "open" THEN 1 ELSE 0)]
    /\ fld' = NoFld
    /\ sent' = NoFld
    /\ used' = <<>>
    /\ chk' = NoChk
    /\ UNCHANGED <<beam, laser, cf, evl, gen>>

\* the values a call from outside draws steps, n_proc and the length from
StepInputs == {1, MaxSteps}
ProcInputs == {0, MaxProc}
LenInputs == {1, MaxLen}

CallStageRK ==
    \E md \in ModeInputs, st \in StepInputs, np \in ProcInputs,
       len \in LenInputs :
        \E vp, fl, au \in (IF md = "FromPICCode" THEN BOOLEAN ELSE {FALSE}) :
            Call("stage_rk", md, st, np, FALSE, len, vp, fl, au)

CallStageAn ==
    \E md \in ModeInputs, st \in StepInputs, len \in LenInputs :
        Call("stage_an", md, st, 0, FALSE, len, FALSE, FALSE, FALSE)

CallRamp ==
    \E st \in StepInputs, np \in ProcInputs, nr \in BOOLEAN,
       len \in LenInputs :
        Call("ramp_rk", "none", st, np, nr, len, FALSE, FALSE, FALSE)

\* the call ends by raising e
Raise(e) ==
    /\ exc' = e
    /\ pc' = "done"

\* the heuristic time steps the model draws dt from
DtInputs == {<<1, 12>>, <<1, 5>>, <<1, 3>>, <<1, 1>>}

(* --------- PlasmaStage.track_beam_numerically_RK_parallel --------------- *)
\* the same with a field model for every other mode string
StageFieldClass_Default(md) ==
    CASE md = "Blowout" -> "BlowoutWakefield"
      [] md = "FromPICCode" -> "WakefieldFromPICSimulation"
      [] OTHER -> "CustomBlowoutWakefield"

\* the class the mode dispatch names, "unset" when no branch is taken
StageFieldClass(md) ==
    CASE md = "Blowout" -> "BlowoutWakefield"
      [] md = "CustomBlowout" -> "CustomBlowoutWakefield"
      [] md = "FromPICCode" -> "WakefieldFromPICSimulation"
      [] OTHER -> "unset"

\* WakefieldFromPICSimulation.__init__ needs DataContainer (bound only when
\* VisualPIC is installed) and, with filter_fields, the name ndimage, which
\* wakefields.py never imports
PICConstructs(a) == a.vpic /\ ~a.filt

\* lines 155-164: the mode dispatch
StageRKDispatch ==
    /\ pc = "rk_dispatch"
    /\ LET cls == StageFieldClass(arg.mode) IN
        IF cls = "unset"
        THEN /\ pc' = "rk_dt"
             /\ UNCHANGED <<WF, exc, fld>>
        ELSE IF cls \notin WakefieldClasses
        THEN /\ Raise("NameError")
             /\ UNCHANGED <<WF, fld>>
        ELSE IF cls = "WakefieldFromPICSimulation"
        THEN IF ~PICConstructs(arg)
             THEN /\ Raise("NameError")
                  /\ UNCHANGED <<WF, fld>>
             ELSE /\ WF' = cls
                  /\ \E sim \in Simulations, i \in 1..MaxTs :
                       fld' = WakefieldFromPICSimulation(
                                  sim, laser, GetTimeSteps[i], FALSE)
                  /\ pc' = "rk_dt"
                  /\ UNCHANGED exc
        ELSE /\ WF' = cls
             /\ pc' = "rk_dt"
             /\ UNCHANGED <<exc, fld>>
    /\ UNCHANGED <<arg, beam, laser, beam0, laser0, derived, v_w, pool, loc,
                   matrix_list, inflight, results, beam_list, ret, hist,
                   sent, used, chk, cf, evl, gen>>

\* lines 166-170 and _get_optimized_dt (222-232)
StageRKGetDt ==
    /\ pc = "rk_dt"
    /\ IF WF = "unset"
       THEN /\ Raise("UnboundLocalError")
            /\ UNCHANGED loc
       ELSE IF KxArgsPassed # KxParams
       THEN /\ Raise("TypeError")
            /\ UNCHANGED loc
       ELSE /\ \E d \in DtInputs :
                 loc' = [loc EXCEPT
                           !.t_final = Rat(arg.length, c),
                           !.t_step = RatDiv(Rat(arg.length, c), RatInt(arg.steps)),
                           !.dt = d]
            /\ pc' = "iter"
            /\ UNCHANGED exc
    /\ UNCHANGED <<arg, beam, laser, beam0, laser0, WF, derived, v_w, pool,
                   matrix_list, inflight, results, beam_list, ret, hist>>
    /\ UNCHANGED fvars

(* --------- PlasmaRamp.track_beam_numerically_RK_parallel ---------------- *)
\* the same without the test of non_rel
RampDispatch_IgnoresNonRel ==
    /\ pc = "ramp_dispatch"
    /\ IF RampFieldArgsPassed # RampFieldParams
       THEN /\ Raise("TypeError")
            /\ UNCHANGED <<WF, loc>>
       ELSE /\ WF' = "PlasmaRampBlowoutField"
            /\ \E d \in DtInputs :
                 loc' = [loc EXCEPT
                           !.t_final = Rat(arg.length, c),
                           !.t_step = RatDiv(Rat(arg.length, c), RatInt(arg.steps)),
                           !.dt = d]
            /\ pc' = "iter"
            /\ UNCHANGED exc
    /\ UNCHANGED <<arg, beam, laser, beam0, laser0, derived, v_w, pool,
                   matrix_list, inflight, results, beam_list, ret, hist>>
    /\ UNCHANGED fvars

\* lines 462-476: non_rel, construction of the field, time step
RampDispatch ==
    /\ pc = "ramp_dispatch"
    /\ IF arg.non_rel
       THEN /\ Raise("NotImplementedError")
            /\ UNCHANGED <<WF, loc>>
       ELSE IF RampFieldArgsPassed # RampFieldParams
       THEN /\ Raise("TypeError")
            /\ UNCHANGED <<WF, loc>>
       ELSE /\ WF' = "PlasmaRampBlowoutField"
            /\ \E d \in DtInputs :
                 loc' = [loc EXCEPT
                           !.t_final = Rat(arg.length, c),
                           !.t_step = RatDiv(Rat(arg.length, c), RatInt(arg.steps)),
                           !.dt = d]
            /\ pc' = "iter"
            /\ UNCHANGED exc
    /\ UNCHANGED <<arg, beam, laser, beam0, laser0, derived, v_w, pool,
                   matrix_list, inflight, results, beam_list, ret, hist>>
    /\ UNCHANGED fvars

(* ---------------- PlasmaStage.track_beam_analytically -------------------- *)
\* the modes whose branch binds E, E_p and K without calling a helper
AnInlineModes == {"Blowout", "CustomBlowout", "Linear", "LinearAlberto"}

\* the helper a FromOsiris branch calls on self
AnHelper(md) ==
    CASE md = "FromOsiris2D" -> "get_fields_from_osiris_2D"
      [] md = "FromOsiris3D" -> "get_fields_from_osiris_3D"
      [] OTHER -> "none"

\* lines 240-320: laser and beam quantities, the mode dispatch
AnDispatch ==
    /\ pc = "an_dispatch"
    /\ v_w' = RatMul(get_group_velocity(laser), RatInt(c))
    /\ loc' = [loc EXCEPT !.t_final = Rat(arg.length, c)]
    /\ IF arg.mode \in AnInlineModes
       THEN /\ derived' = TRUE
            /\ pc' = "an_init"
            /\ UNCHANGED exc
       ELSE IF AnHelper(arg.mode) # "none"
       THEN IF AnHelper(arg.mode) \in PlasmaStageMethods
            THEN /\ derived' = TRUE
                 /\ pc' = "an_init"
                 /\ UNCHANGED exc
            ELSE /\ Raise("AttributeError")
                 /\ UNCHANGED derived
       ELSE /\ pc' = "an_init"
            /\ UNCHANGED <<derived, exc>>
    /\ UNCHANGED <<arg, beam, laser, beam0, laser0, WF, pool, matrix_list,
                   inflight, results, beam_list, ret, hist>>
    /\ UNCHANGED fvars

\* lines 323-344: the first use of K is w_0 = np.sqrt(K/g_0)
AnInitialValues ==
    /\ pc = "an_init"
    /\ IF derived
       THEN /\ pc' = "an_pool"
            /\ UNCHANGED exc
       ELSE Raise("UnboundLocalError")
    /\ UNCHANGED <<arg, beam, laser, beam0, laser0, WF, derived, v_w, pool,
                   loc, matrix_list, inflight, results, beam_list, ret, hist>>
    /\ UNCHANGED fvars

\* lines 348-349: p = Pool(cpu_count())
AnCreatePool ==
    /\ pc = "an_pool"
    /\ pool' = "open"
    /\ pc' = "an_map"
    /\ UNCHANGED <<arg, beam, laser, beam0, laser0, WF, derived, v_w, loc,
                   matrix_list, inflight, results, beam_list, exc, ret, hist>>
    /\ UNCHANGED fvars

\* _get_beam_at_specified_time_step_from_paper_final (368-393): the bunch b
\* at time t after the entry of the stage
AnalyticSnapshot(b, t) ==
    ParticleBunch([i \in 1..Len(b.ps) |-> [b.ps[i] EXCEPT !.t = RatAdd(@, t)]],
                  RatAdd(b.prop, RatMul(t, RatInt(c))))

\* lines 350-354: t = t_final/steps*(np.arange(steps)+1); p.map(part, t)
AnMap ==
    /\ pc = "an_map"
    /\ beam_list' =
          [k \in 1..arg.steps |->
             AnalyticSnapshot(beam,
                 RatMul(RatDiv(loc.t_final, RatInt(arg.steps)), RatInt(k)))]
    /\ pc' = "an_commit"
    /\ UNCHANGED <<arg, beam, laser, beam0, laser0, WF, derived, v_w, pool,
                   loc, matrix_list, inflight, results, exc, ret, hist>>
    /\ UNCHANGED fvars

\* line 352: a worker raises and p.map raises it again in the parent
AnMapRaises ==
    /\ pc = "an_map"
    /\ Raise("WorkerError")
    /\ UNCHANGED <<arg, beam, laser, beam0, laser0, WF, derived, v_w, pool,
                   loc, matrix_list, inflight, results, beam_list, ret, hist>>
    /\ UNCHANGED fvars

\* lines 356-359: update beam data
AnCommitBeam ==
    /\ pc = "an_commit"
    /\ beam' = increase_prop_distance(
                   set_phase_space(beam, beam_list[Len(beam_list)].ps),
                   arg.length)
    /\ hist' = [hist EXCEPT !.bw = @ + 1]
    /\ pc' = "an_laser"
    /\ UNCHANGED <<arg, laser, beam0, laser0, WF, derived, v_w, pool, loc,
                   matrix_list, inflight, results, beam_list, exc, ret>>
    /\ UNCHANGED fvars

\* the same with xi_c moved by v_w*t_final
AnCommitLaser_NoSlip ==
    /\ pc = "an_laser"
    /\ laser' = [laser_increase_prop_distance(laser, arg.length) EXCEPT
                   !.xi_c = RatAdd(@, RatMul(v_w, loc.t_final))]
    /\ hist' = [hist EXCEPT !.lw = @ + 1]
    /\ pc' = "an_return"
    /\ UNCHANGED <<arg, beam, beam0, laser0, WF, derived, v_w, pool, loc,
                   matrix_list, inflight, results, beam_list, exc, ret>>
    /\ UNCHANGED fvars

\* lines 361-363: update laser data
AnCommitLaser ==
    /\ pc = "an_laser"
    /\ laser' = [laser_increase_prop_distance(laser, arg.length) EXCEPT
                   !.xi_c = RatAdd(@, RatMul(RatSub(v_w, RatInt(c)), loc.t_final))]
    /\ hist' = [hist EXCEPT !.lw = @ + 1]
    /\ pc' = "an_return"
    /\ UNCHANGED <<arg, beam, beam0, laser0, WF, derived, v_w, pool, loc,
                   matrix_list, inflight, results, beam_list, exc, ret>>
    /\ UNCHANGED fvars

\* line 366: return beam_steps_list
AnReturn ==
    /\ pc = "an_return"
    /\ ret' = Len(beam_list)
    /\ pc' = "done"
    /\ hist' = [hist EXCEPT !.sumL = @ + arg.length, !.ok = @ + 1]
    /\ UNCHANGED <<arg, beam, laser, beam0, laser0, WF, derived, v_w, pool,
                   loc, matrix_list, inflight, results, beam_list, exc>>
    /\ UNCHANGED fvars


(* ---------------- numerical orchestration (both elements) --------------- *)
Min(a, b) == IF a <= b THEN a ELSE b

\* the same with the operands of the division exchanged
Iterations_Swapped(t_final, dt) == RatFloor(RatDiv(dt, t_final))

\* iterations = int(t_final/dt)
Iterations(t_final, dt) == RatFloor(RatDiv(t_final, dt))

\* the same without the floor of one iteration per step
ItPerStep_NoFloor(t_final, dt, st) == Iterations(t_final, dt) \div st

\* it_per_step = max(int(iterations/steps), 1)
ItPerStep(t_final, dt, st) == Max(Iterations(t_final, dt) \div st, 1)

\* the same with the iteration count not rounded to a multiple of steps
DtAdjusted_NotRounded(t_final, dt, st) ==
    RatDiv(t_final, RatInt(Max(Iterations(t_final, dt), 1)))

\* dt_adjusted = t_final/(it_per_step*steps)
DtAdjusted(t_final, dt, st) ==
    RatDiv(t_final, RatInt(ItPerStep(t_final, dt, st) * st))

\* the same with an integer division under the ceil
PartPerProc_IntDiv(num_part, num_proc) == num_part \div num_proc

\* int(np.ceil(num_part/num_proc))
PartPerProc(num_part, num_proc) == (num_part + num_proc - 1) \div num_proc

\* mat[:, a:b] for 0 <= a <= b
Slice(mat, a, b) ==
    LET lo == Min(a, Len(mat))
        hi == Min(b, Len(mat))
    IN  [j \in 1..(hi - lo) |-> mat[lo + j]]

\* the list of blocks built by the loop over np.arange(num_proc)
SplitBlocks(mat, num_proc, ppp) ==
    [p \in 1..num_proc |-> Slice(mat, (p - 1) * ppp, p * ppp)]

\* np.concatenate(blocks, axis=1)
RECURSIVE Concatenate(_)
Concatenate(blocks) ==
    IF blocks = <<>> THEN <<>>
    ELSE Head(blocks) \o Concatenate(Tail(blocks))

\* runge_kutta_4(block, WF, dt, iterations, t0): every column of the block
\* is advanced by iterations steps of size dt, independently of the others
runge_kutta_4(block, dt, iterations) ==
    [j \in 1..Len(block) |->
        [block[j] EXCEPT !.t = RatAdd(@, RatMul(RatInt(iterations), dt))]]

\* beam.get_6D_matrix()
get_6D_matrix(b) == b.ps

\* t0=s*t_step: the absolute time the integration of step s starts at
T0(s, t_step) == RatMul(RatInt(s), t_step)

\* lines 171-175 (477-481): the number of iterations and the adjusted step
OrchIterations ==
    /\ pc = "iter"
    /\ loc' = [loc EXCEPT
                 !.it_per_step = ItPerStep(loc.t_final, loc.dt, arg.steps),
                 !.iterations = ItPerStep(loc.t_final, loc.dt, arg.steps) * arg.steps,
                 !.dt_adjusted = DtAdjusted(loc.t_final, loc.dt, arg.steps)]
    /\ pc' = "rk_pool"
    /\ UNCHANGED <<arg, beam, laser, beam0, laser0, WF, derived, v_w, pool,
                   matrix_list, inflight, results, beam_list, exc, ret, hist>>
    /\ UNCHANGED fvars

\* lines 180-188 (485-493): the number of processes, the pool
OrchCreatePool ==
    /\ pc = "rk_pool"
    /\ LET np == IF arg.n_proc = 0 THEN CpuCount ELSE arg.n_proc IN
         loc' = [loc EXCEPT
                   !.num_proc = np,
                   !.part_per_proc = PartPerProc(Len(get_6D_matrix(beam)), np)]
    /\ pool' = "open"
    /\ pc' = "rk_split"
    /\ UNCHANGED <<arg, beam, laser, beam0, laser0, WF, derived, v_w,
                   matrix_list, inflight, results, beam_list, exc, ret, hist>>
    /\ UNCHANGED fvars

\* lines 191-192 (495-496): the column blocks
OrchSplit ==
    /\ pc = "rk_split"
    /\ matrix_list' = SplitBlocks(get_6D_matrix(beam), loc.num_proc,
                                  loc.part_per_proc)
    /\ pc' = "rk_step"
    /\ UNCHANGED <<arg, beam, laser, beam0, laser0, WF, derived, v_w, pool,
                   loc, inflight, results, beam_list, exc, ret, hist>>
    /\ UNCHANGED fvars

\* the classes of wakefields.py that define check_if_update_fields
HasCheckIfUpdateFields == {"WakefieldFromPICSimulation"}

\* the same with the check left to the workers
OrchRefresh_Skipped ==
    /\ pc = "rk_step"
    /\ loc.s < arg.steps
    /\ pc' = "rk_send"
    /\ UNCHANGED <<arg, beam, laser, beam0, laser0, WF, derived, v_w, pool,
                   loc, matrix_list, inflight, results, beam_list, exc, ret,
                   hist, fld, sent, used, chk, cf, evl, gen>>

\* lines 194-197: step s begins; with auto_update_fields the parent calls
\* WF.check_if_update_fields(s*t_step)
OrchRefresh ==
    /\ pc = "rk_step"
    /\ loc.s < arg.steps
    /\ IF ~arg.auto
       THEN /\ pc' = "rk_send"
            /\ UNCHANGED <<fld, chk, exc>>
       ELSE IF WF \notin HasCheckIfUpdateFields
       THEN /\ exc' = "AttributeError"
            /\ pc' = "rk_finally"
            /\ UNCHANGED <<fld, chk>>
       ELSE /\ fld' = check_if_update_fields(
                          fld, RatMul(RatInt(loc.s), loc.t_step))
            /\ chk' = [n |-> chk.n + 1, s |-> loc.s,
                       time |-> RatMul(RatInt(loc.s), loc.t_step)]
            /\ pc' = "rk_send"
            /\ UNCHANGED exc
    /\ UNCHANGED <<arg, beam, laser, beam0, laser0, WF, derived, v_w, pool,
                   loc, matrix_list, inflight, results, beam_list, ret, hist,
                   sent, used, cf, evl, gen>>

\* lines 198-201 (500-503): step s hands every block to the pool, the field
\* model pickled with it
OrchDispatch ==
    /\ pc = "rk_send"
    /\ inflight' = 1..Len(matrix_list)
    /\ results' = [p \in 1..Len(matrix_list) |-> <<>>]
    /\ sent' = fld
    /\ used' = [p \in 1..Len(matrix_list) |-> Grid(NoFld)]
    /\ pc' = "rk_map"
    /\ UNCHANGED <<arg, beam, laser, beam0, laser0, WF, derived, v_w, pool,
                   loc, matrix_list, beam_list, exc, ret, hist, fld, chk, cf,
                   evl, gen>>

\* a worker returns block p integrated against the model it was sent; the
\* evaluators of a PIC-sourced model of a 3D simulation raise (PICWx, PICWy)
WorkerReturn(p) ==
    /\ pc = "rk_map"
    /\ p \in inflight
    /\ sent.geom # "3D"
    /\ results' = [results EXCEPT
                     ![p] = runge_kutta_4(matrix_list[p], loc.dt_adjusted,
                                          loc.it_per_step)]
    /\ used' = [used EXCEPT ![p] = Grid(sent)]
    /\ inflight' = inflight \ {p}
    /\ UNCHANGED <<pc, arg, beam, laser, beam0, laser0, WF, derived, v_w,
                   pool, loc, matrix_list, beam_list, exc, ret, hist, fld,
                   sent, chk, cf, evl, gen>>

\* a worker raises on block p; process_pool.map raises it in the parent and
\* the blocks already returned are dropped with it
WorkerRaises(p) ==
    /\ pc = "rk_map"
    /\ p \in inflight
    /\ exc' = "WorkerError"
    /\ inflight' = {}
    /\ results' = <<>>
    /\ pc' = "rk_finally"
    /\ UNCHANGED <<arg, beam, laser, beam0, laser0, WF, derived, v_w, pool,
                   loc, matrix_list, beam_list, ret, hist>>
    /\ UNCHANGED fvars

\* the same with the blocks of the next step left as they were
OrchCollect_StaleInput ==
    /\ pc = "rk_map"
    /\ inflight = {}
    /\ beam_list' = Append(beam_list,
          ParticleBunch(Concatenate(results),
              RatAdd(beam.prop,
                     RatMul(RatMul(RatInt(loc.s + 1), loc.t_step), RatInt(c)))))
    /\ loc' = [loc EXCEPT !.s = @ + 1]
    /\ pc' = IF loc.s + 1 < arg.steps THEN "rk_step" ELSE "rk_finally"
    /\ UNCHANGED <<arg, beam, laser, beam0, laser0, WF, derived, v_w, pool,
                   matrix_list, inflight, results, exc, ret, hist>>
    /\ UNCHANGED fvars

\* the same with the bunch updated at every step
OrchCollect_UpdatesBeam ==
    /\ pc = "rk_map"
    /\ inflight = {}
    /\ matrix_list' = results
    /\ beam_list' = Append(beam_list,
          ParticleBunch(Concatenate(results),
              RatAdd(beam.prop,
                     RatMul(RatMul(RatInt(loc.s + 1), loc.t_step), RatInt(c)))))
    /\ beam' = set_phase_space(beam, Concatenate(results))
    /\ loc' = [loc EXCEPT !.s = @ + 1]
    /\ pc' = IF loc.s + 1 < arg.steps THEN "rk_step" ELSE "rk_finally"
    /\ UNCHANGED <<arg, laser, beam0, laser0, WF, derived, v_w, pool,
                   inflight, results, exc, ret, hist>>
    /\ UNCHANGED fvars

\* lines 201-208 (503-510): map returns, the blocks are put together and
\* the snapshot of step s is appended
OrchCollect ==
    /\ pc = "rk_map"
    /\ inflight = {}
    /\ matrix_list' = results
    /\ beam_list' = Append(beam_list,
          ParticleBunch(Concatenate(results),
              RatAdd(beam.prop,
                     RatMul(RatMul(RatInt(loc.s + 1), loc.t_step), RatInt(c)))))
    /\ loc' = [loc EXCEPT !.s = @ + 1]
    /\ pc' = IF loc.s + 1 < arg.steps THEN "rk_step" ELSE "rk_finally"
    /\ UNCHANGED <<arg, beam, laser, beam0, laser0, WF, derived, v_w, pool,
                   inflight, results, exc, ret, hist>>
    /\ UNCHANGED fvars

\* lines 209-211 (511-513): finally: close and join the pool
OrchFinally ==
    /\ pc = "rk_finally"
    /\ pool' = "closed"
    /\ pc' = IF exc = "none" THEN "rk_commit" ELSE "done"
    /\ UNCHANGED <<arg, beam, laser, beam0, laser0, WF, derived, v_w, loc,
                   matrix_list, inflight, results, beam_list, exc, ret, hist>>
    /\ UNCHANGED fvars

\* the same without the call of increase_prop_distance
OrchCommit_NoIncrease ==
    /\ pc = "rk_commit"
    /\ beam' = set_phase_space(beam, beam_list[Len(beam_list)].ps)
    /\ hist' = [hist EXCEPT !.bw = @ + 1]
    /\ pc' = "rk_return"
    /\ UNCHANGED <<arg, laser, beam0, laser0, WF, derived, v_w, pool, loc,
                   matrix_list, inflight, results, beam_list, exc, ret>>
    /\ UNCHANGED fvars

\* lines 215-219 (518-522): update beam data
OrchCommit ==
    /\ pc = "rk_commit"
    /\ beam' = increase_prop_distance(
                   set_phase_space(beam, beam_list[Len(beam_list)].ps),
                   arg.length)
    /\ hist' = [hist EXCEPT !.bw = @ + 1]
    /\ pc' = "rk_return"
    /\ UNCHANGED <<arg, laser, beam0, laser0, WF, derived, v_w, pool, loc,
                   matrix_list, inflight, results, beam_list, exc, ret>>
    /\ UNCHANGED fvars

\* line 220 (524): return beam_list
OrchReturn ==
    /\ pc = "rk_return"
    /\ ret' = Len(beam_list)
    /\ pc' = "done"
    /\ hist' = [hist EXCEPT !.sumL = @ + arg.length, !.ok = @ + 1]
    /\ UNCHANGED <<arg, beam, laser, beam0, laser0, WF, derived, v_w, pool,
                   loc, matrix_list, inflight, results, beam_list, exc>>
    /\ UNCHANGED fvars

\* The orchestration entered at line 171 (477): a field model is bound, the
\* heuristic has given a time step dt > 0, t_final and t_step are computed.
InitOrch ==
    /\ pc = "iter"
    /\ laser = [xi_c |-> <<0, 1>>, prop |-> <<0, 1>>, bw |-> <<2, 3>>]
    /\ \/ /\ \E m \in {"stage_rk", "ramp_rk"}, st \in 1..MaxSteps,
                np \in 0..MaxProc, len \in LenInputs, d \in DtInputs :
               /\ arg = [method |-> m,
                         mode |-> IF m = "stage_rk" THEN "CustomBlowout"
                                  ELSE "none",
                         steps |-> st, n_proc |-> np, non_rel |-> FALSE,
                         length |-> len, vpic |-> FALSE, filt |-> FALSE,
                         auto |-> FALSE]
               /\ loc = [NoLoc EXCEPT
                           !.t_final = Rat(len, c),
                           !.t_step = RatDiv(Rat(len, c), RatInt(st)),
                           !.dt = d]
               /\ WF = IF m = "stage_rk" THEN StageFieldClass(arg.mode)
                       ELSE "PlasmaRampBlowoutField"
          /\ \E n \in 1..MaxPart : beam = NewBunch(n, RatInt(2))
          /\ fld = NoFld
       \/ \* a Plasma Stage call with auto_update_fields, or with the fields
          \* of a simulation
          /\ \E md \in {"CustomBlowout", "FromPICCode"}, st \in 1..MaxSteps,
                np \in {1, CpuCount}, len \in LenInputs, au \in BOOLEAN :
               /\ md = "CustomBlowout" => au
               /\ arg = [method |-> "stage_rk", mode |-> md, steps |-> st,
                         n_proc |-> np, non_rel |-> FALSE, length |-> len,
                         vpic |-> (md = "FromPICCode"), filt |-> FALSE,
                         auto |-> au]
               /\ loc = [NoLoc EXCEPT
                           !.t_final = Rat(len, c),
                           !.t_step = RatDiv(Rat(len, c), RatInt(st)),
                           !.dt = <<1, 5>>]
               /\ WF = StageFieldClass(md)
               /\ IF md = "FromPICCode"
                  THEN \E sim \in Simulations, i \in 1..2 :
                         fld = WakefieldFromPICSimulation(
                                   sim, laser, GetTimeSteps[i], FALSE)
                  ELSE fld = NoFld
          /\ beam = NewBunch(MaxPart, RatInt(2))
    /\ beam0 = beam
    /\ laser0 = laser
    /\ derived = FALSE
    /\ v_w = <<0, 1>>
    /\ pool = "none"
    /\ matrix_list = <<>>
    /\ inflight = {}
    /\ results = <<>>
    /\ beam_list = <<>>
    /\ exc = "none"
    /\ ret = -1
    /\ hist = [calls |-> 1, sumL |-> 0, prop_init |-> beam.prop, bw |-> 0,
               lw |-> 0, leaked |-> 0, ok |-> 0]
    /\ sent = NoFld
    /\ used = <<>>
    /\ chk = NoChk
    /\ cf = [p \in Procs |-> NoW]
    /\ evl = NoEvl
    /\ gen = NoGen

NextOrch ==
    \/ OrchIterations
    \/ OrchCreatePool
    \/ OrchSplit
    \/ OrchRefresh
    \/ OrchDispatch
    \/ \E p \in 1..MaxProc : WorkerReturn(p)
    \/ \E p \in 1..MaxProc : WorkerRaises(p)
    \/ OrchCollect
    \/ OrchFinally
    \/ OrchCommit
    \/ OrchReturn


(* --------------------------- specification ------------------------------ *)
Next ==
    \/ CallStageRK
    \/ CallStageAn
    \/ CallRamp
    \/ StageRKDispatch
    \/ StageRKGetDt
    \/ RampDispatch
    \/ AnDispatch
    \/ AnInitialValues
    \/ AnCreatePool
    \/ AnMap
    \/ AnMapRaises
    \/ AnCommitBeam
    \/ AnCommitLaser
    \/ AnReturn

Spec == Init /\ [][Next]_vars

\* the orchestration of a first call, followed by any further calls
NextAll == NextOrch \/ Next

SpecOrch == InitOrch /\ [][NextAll]_vars

(* ------------------- the field models used on their own ----------------- *)
\* the state of the variables of a tracking call while no call is running
NoCall ==
    /\ pc = "idle"
    /\ arg = NoArg
    /\ beam = NewBunch(1, <<0, 1>>)
    /\ beam0 = beam
    /\ laser0 = laser
    /\ WF = "unset"
    /\ derived = FALSE
    /\ v_w = <<0, 1>>
    /\ pool = "none"
    /\ loc = NoLoc
    /\ matrix_list = <<>>
    /\ inflight = {}
    /\ results = <<>>
    /\ beam_list = <<>>
    /\ exc = "none"
    /\ ret = -1
    /\ hist = [calls |-> 0, sumL |-> 0, prop_init |-> beam.prop, bw |-> 0,
               lw |-> 0, leaked |-> 0, ok |-> 0]
    /\ sent = NoFld
    /\ used = <<>>

\* the points (x, y) and xi, and the times, the evaluators are called with
PointsXY == {<<1, 0>>, <<0, 1>>, <<0, GridMax + 1>>}
PointsXi == {<<1, 1>>, <<GridMax, 1>>, <<GridMax + 1, 1>>}
EvalTimes == {<<0, 1>>, <<1, 3>>}

\* the elapsed times check_if_update_fields is called with
CheckTimes == {<<0, 1>>, <<1, 8>>, <<3, 10>>, <<1, 1>>}

\* A field model has been constructed: a PIC-sourced one, forward or reverse,
\* at one of the steps of its simulation, or a cold-fluid one together with
\* the evaluator and the particle it is going to be called for.
InitField ==
    /\ \E b \in {<<1, 2>>, <<2, 3>>} :
           laser = [xi_c |-> <<0, 1>>, prop |-> <<0, 1>>, bw |-> b]
    /\ NoCall
    /\ chk = NoChk
    /\ gen = NoGen
    /\ \/ /\ \E sim \in Simulations, i \in 1..MaxTs, rev \in BOOLEAN :
               fld = WakefieldFromPICSimulation(sim, laser, GetTimeSteps[i], rev)
          /\ cf = [p \in Procs |-> NoW]
          /\ evl = NoEvl
       \/ /\ fld = NoFld
          /\ \E prof \in DensityProfiles, evo \in BOOLEAN :
               cf = [p \in Procs |->
                       IF p = "parent"
                       THEN NonLinearColdFluidWakefield(prof, evo)
                       ELSE NoW]
          /\ \E comp \in Components, p \in PointsXY,
                xi \in {<<1, 1>>, <<GridMax + 1, 1>>} :
               evl = [NoEvl EXCEPT !.model = "ColdFluid", !.comp = comp,
                                   !.x = p[1], !.y = p[2], !.xi = xi]

\* WF.check_if_update_fields(time) called on the PIC-sourced model (chk.n
\* counts the checks of a tracking call only)
FieldCheck ==
    \E time \in CheckTimes :
        /\ fld.geom # "none"
        /\ evl.model = "none"
        /\ fld' = check_if_update_fields(fld, time)
        /\ chk' = [chk EXCEPT !.time = time]
        /\ UNCHANGED <<pc, arg, beam, laser, beam0, laser0, WF, derived, v_w,
                       pool, loc, matrix_list, inflight, results, beam_list,
                       exc, ret, hist, sent, used, cf, evl, gen>>

\* one of Wx, Wy, Wz, Kx of the PIC-sourced model called for one particle;
\* the model is left as it is, and the behaviours end with the evaluation
PICEvaluate ==
    \E comp \in Components, p \in PointsXY, xi \in PointsXi, t \in EvalTimes :
        /\ fld.geom # "none"
        /\ evl.model = "none"
        /\ evl' = [NoEvl EXCEPT
                     !.model = "PIC", !.proc = "parent", !.comp = comp,
                     !.x = p[1], !.y = p[2], !.xi = xi, !.t = t,
                     !.out = PICEval(comp, fld, p[1], p[2], xi, t)]
        /\ UNCHANGED <<pc, arg, beam, laser, beam0, laser0, WF, derived, v_w,
                       pool, loc, matrix_list, inflight, results, beam_list,
                       exc, ret, hist, fld, sent, used, chk, cf, gen>>

\* process_pool.map pickles the model with the tasks of a step: the worker
\* gets the parent's model as it is
ColdFluidDispatch ==
    /\ cf["parent"].density_function # "none"
    /\ cf' = [p \in Procs |-> cf["parent"]]
    /\ UNCHANGED <<pc, arg, beam, laser, beam0, laser0, WF, derived, v_w,
                   pool, loc, matrix_list, inflight, results, beam_list,
                   exc, ret, hist, fld, sent, used, chk, evl, gen>>

\* the evaluator evl.comp of the cold-fluid model called at time t for the
\* particle at (evl.x, evl.y, evl.xi) by a process on its copy: by the parent
\* (the time step heuristic), or by a worker (the integrator)
ColdFluidEvaluate ==
    \E proc \in Procs, t \in EvalTimes :
        /\ cf[proc].density_function # "none"
        /\ cf' = [cf EXCEPT ![proc] = calculate_wakefields(@, proc, evl.xi, t)]
        /\ evl' = [evl EXCEPT
                     !.proc = proc, !.t = t,
                     !.out = ColdFluidEval(evl.comp, cf'[proc], evl.x, evl.y,
                                           evl.xi),
                     !.pre_t = cf[proc].current_t,
                     !.pre_n_p = cf[proc].current_n_p,
                     !.pre_grid = Grid(cf[proc]),
                     !.fresh = cf'[proc].fresh,
                     !.grid = Grid(cf'[proc])]
        /\ UNCHANGED <<pc, arg, beam, laser, beam0, laser0, WF, derived, v_w,
                       pool, loc, matrix_list, inflight, results, beam_list,
                       exc, ret, hist, fld, sent, used, chk, gen>>

NextField ==
    \/ FieldCheck
    \/ PICEvaluate
    \/ ColdFluidDispatch
    \/ ColdFluidEvaluate

SpecField == InitField /\ [][NextField]_vars

(* --------------------- the bunch generators called ---------------------- *)
GenFunctions == {"get_gaussian_bunch_from_twiss",
                 "get_gaussian_bunch_from_size", "get_matched_bunch",
                 "get_from_file"}

\* total charges in pC, energies, sizes, densities and focusing strengths
\* the generators are called with
ChargeInputs == {1, 7, 10}
EnergyInputs == {100, 200}
DensityInputs == {None, 1, 5}
FocusingInputs == {None, 2, 3}

\* A generator is about to be called with its arguments.
InitBunch ==
    /\ laser = [xi_c |-> <<0, 1>>, prop |-> <<0, 1>>, bw |-> <<2, 3>>]
    /\ NoCall
    /\ chk = NoChk
    /\ evl = NoEvl
    /\ fld = NoFld
    /\ cf = [p \in Procs |-> NoW]
    /\ \E q \in ChargeInputs, n \in 1..MaxPart, e \in EnergyInputs :
         \/ \E a \in {-1, 0, 1}, b \in {1, 2} :
              gen = [fn |-> "get_gaussian_bunch_from_twiss",
                     in |-> [NoIn EXCEPT !.a_x = a, !.a_y = -a, !.b = b,
                                         !.ene = e, !.q_tot = q, !.n_part = n],
                     out |-> NoOut]
         \/ \E s \in {1, 2} :
              gen = [fn |-> "get_gaussian_bunch_from_size",
                     in |-> [NoIn EXCEPT !.s_x = s, !.ene = e, !.q_tot = q,
                                         !.n_part = n],
                     out |-> NoOut]
         \/ \E d \in DensityInputs, k \in FocusingInputs :
              /\ d # None \/ k # None
              /\ gen = [fn |-> "get_matched_bunch",
                        in |-> [NoIn EXCEPT !.ene = e, !.q_tot = q,
                                            !.n_part = n, !.n_p = d, !.k_x = k],
                        out |-> NoOut]
         \/ \E f \in BeamFiles, pr \in BOOLEAN :
              /\ q = 1 /\ n = 1 /\ e = 100
              /\ gen = [fn |-> "get_from_file",
                        in |-> [NoIn EXCEPT !.file = f, !.preserve = pr],
                        out |-> NoOut]

Pending(fn) == gen.fn = fn /\ gen.out.raised = "pending"

LibUnchanged ==
    UNCHANGED <<pc, arg, beam, laser, beam0, laser0, WF, derived, v_w, pool,
                loc, matrix_list, inflight, results, beam_list, exc, ret,
                hist, fld, sent, used, chk, cf, evl>>

GenTwiss ==
    /\ Pending("get_gaussian_bunch_from_twiss")
    /\ gen' = [gen EXCEPT !.out =
                 get_gaussian_bunch_from_twiss(
                     gen.in.a_x, gen.in.a_y,
                     Beta("twiss", Sci(RatInt(gen.in.b), 0)),
                     Beta("twiss", Sci(RatInt(gen.in.b), 0)),
                     gen.in.xi_c, gen.in.q_tot, gen.in.n_part)]
    /\ LibUnchanged

GenSize ==
    /\ Pending("get_gaussian_bunch_from_size")
    /\ gen' = [gen EXCEPT !.out =
                 get_gaussian_bunch_from_size(
                     1, 1, gen.in.s_x, gen.in.s_x, gen.in.ene, gen.in.xi_c,
                     gen.in.q_tot, gen.in.n_part)]
    /\ LibUnchanged

GenMatched ==
    /\ Pending("get_matched_bunch")
    /\ gen' = [gen EXCEPT !.out =
                 get_matched_bunch(gen.in.ene, gen.in.xi_c, gen.in.q_tot,
                                   gen.in.n_part, gen.in.n_p, gen.in.k_x)]
    /\ LibUnchanged

GenFromFile ==
    /\ Pending("get_from_file")
    /\ gen' = [gen EXCEPT !.out = get_from_file(gen.in.file, gen.in.preserve)]
    /\ LibUnchanged

NextBunch ==
    \/ GenTwiss
    \/ GenSize
    \/ GenMatched
    \/ GenFromFile

SpecBunch == InitBunch /\ [][NextBunch]_vars

(* ------------------------------ properties ------------------------------ *)
NumericalMethods == {"stage_rk", "ramp_rk"}

\* positions of the orchestration after lines 171-175
AfterIterations == {"rk_pool", "rk_split", "rk_step", "rk_send", "rk_map",
                    "rk_finally", "rk_commit", "rk_return"}

\* positions of the orchestration after the blocks were built
AfterSplit == {"rk_step", "rk_send", "rk_map", "rk_finally", "rk_commit",
               "rk_return"}

\* the call has returned its list
Returned == pc = "done" /\ exc = "none"

\* C1: once a tracking call has committed and when it has returned, the
\* bunch's prop_distance is its value at the entry of the call plus the length
\* of the element; after any sequence of calls it is the bunch's first value
\* plus the sum of the lengths of the calls that returned.
C1_PropDistance ==
    /\ (pc \in {"an_laser", "an_return", "rk_return"} \/ Returned)
         => beam.prop = RatAdd(beam0.prop, RatInt(arg.length))
    /\ pc = "done"
         => beam.prop = RatAdd(hist.prop_init, RatInt(hist.sumL))

\* two calls have returned, a numerical one and then an analytic one
C1_Witness ==
    /\ Returned
    /\ hist.ok = 2
    /\ arg.method = "stage_an"
    /\ beam.prop = RatAdd(hist.prop_init, RatInt(hist.sumL))
    /\ hist.sumL >= 2

\* C2: a numerical tracking call that returns returns exactly `steps`
\* snapshots; it runs at least one iteration per output step, the step used
\* is t_final/(it_per_step*steps), and when steps exceeds floor(t_final/dt)
\* that step is no larger than dt.
C2_StepCount ==
    arg.method \in NumericalMethods =>
        /\ Returned => ret = arg.steps
        /\ pc \in AfterIterations =>
             /\ loc.it_per_step >= 1
             /\ loc.dt_adjusted =
                  RatDiv(loc.t_final, RatInt(loc.it_per_step * arg.steps))
             /\ arg.steps > RatFloor(RatDiv(loc.t_final, loc.dt))
                  => /\ loc.it_per_step = 1
                     /\ RatLeq(loc.dt_adjusted, loc.dt)
        /\ \A k \in 1..Len(beam_list) : \A i \in 1..Len(beam_list[k].ps) :
             RatLt(beam0.ps[i].t, beam_list[k].ps[i].t)

\* a numerical call has returned `steps` snapshots with more steps asked
\* for than the heuristic implies iterations
C2_Witness ==
    /\ Returned
    /\ arg.method \in NumericalMethods
    /\ arg.steps > RatFloor(RatDiv(loc.t_final, loc.dt))
    /\ arg.steps >= 2
    /\ ret = arg.steps

\* ceil(n/d) for n >= 0, d >= 1
CeilDiv(n, d) == CHOOSE k \in 0..n : k * d >= n /\ (k = 0 \/ (k - 1) * d < n)

\* the whole matrix integrated k times without being split
RECURSIVE Unpartitioned(_, _)
Unpartitioned(mat, k) ==
    IF k = 0 THEN mat
    ELSE runge_kutta_4(Unpartitioned(mat, k - 1), loc.dt_adjusted,
                       loc.it_per_step)

\* C3: the N columns are split into num_proc contiguous blocks of at most
\* ceil(N/num_proc) columns, every column lies in exactly one block, the
\* blocks are in column order, and every snapshot has the N particles at
\* their own column index and equals the integration of the matrix as a whole.
C3_Partition ==
    (arg.method \in NumericalMethods /\ pc \in AfterSplit) =>
        LET N == Len(beam0.ps)
            np == loc.num_proc
        IN  /\ np = (IF arg.n_proc = 0 THEN CpuCount ELSE arg.n_proc)
            /\ Len(matrix_list) = np
            /\ \A p \in 1..np : Len(matrix_list[p]) <= CeilDiv(N, np)
            /\ \A i \in 1..N :
                 Cardinality({pj \in (1..np) \X (1..N) :
                                 /\ pj[2] <= Len(matrix_list[pj[1]])
                                 /\ matrix_list[pj[1]][pj[2]].id = i}) = 1
            /\ \A p \in 1..np : \A j \in 1..Len(matrix_list[p]) :
                 /\ j > 1 => matrix_list[p][j].id = matrix_list[p][j - 1].id + 1
                 /\ \A q \in 1..np : \A h \in 1..Len(matrix_list[q]) :
                      p < q => matrix_list[p][j].id < matrix_list[q][h].id
            /\ \A k \in 1..Len(beam_list) :
                 /\ Len(beam_list[k].ps) = N
                 /\ \A i \in 1..N : beam_list[k].ps[i].id = i
                 /\ beam_list[k].ps = Unpartitioned(beam0.ps, k)

\* a call with more processes than particles has returned two or more
\* snapshots
C3_Witness ==
    /\ Returned
    /\ arg.method \in NumericalMethods
    /\ Len(beam0.ps) >= 2
    /\ loc.num_proc > Len(beam0.ps)
    /\ ret >= 2
    /\ Len(beam_list[ret].ps) = Len(beam0.ps)

\* C4: no tracking call ends, by returning or by raising, with its worker
\* pool still open.
C4_PoolReleased == pc = "done" => pool # "open"

\* positions at which the bunch has been committed
AfterCommit == {"an_laser", "an_return", "rk_return", "done"}

\* C5: the bunch is written once in a call, after the last output step, with
\* the last snapshot's phase space and prop_distance increased by the length;
\* until then, and when the call raises, it is as it was at the entry.
C5_WrittenOnce ==
    /\ hist.bw <= 1
    /\ hist.bw = 0 => beam = beam0
    /\ beam # beam0 =>
         /\ hist.bw = 1
         /\ pc \in AfterCommit
         /\ exc = "none"
         /\ Len(beam_list) = arg.steps
         /\ beam.ps = beam_list[arg.steps].ps
         /\ beam.prop = RatAdd(beam0.prop, RatInt(arg.length))
    /\ (pc = "done" /\ exc # "none") => beam = beam0
    /\ Returned => hist.bw = 1

\* a numerical call has raised in a step after the first one
C5_Witness ==
    /\ pc = "done"
    /\ exc = "WorkerError"
    /\ arg.method \in NumericalMethods
    /\ Len(beam_list) >= 1
    /\ Len(beam_list) < arg.steps
    /\ beam = beam0

\* the mode of the running call is none of the method's dispatch
UnknownMode ==
    \/ arg.method = "stage_rk" /\ arg.mode \notin RKModes
    \/ arg.method = "stage_an" /\ arg.mode \notin AnModes

\* C6: a Plasma Stage tracking call with a mode outside the method's set
\* binds no field model and no E, E_p, K, creates no pool, leaves bunch and
\* laser as they were and ends with the reference error.
C6_UnknownMode ==
    UnknownMode =>
        /\ WF = "unset"
        /\ ~derived
        /\ pool = "none"
        /\ beam = beam0
        /\ laser = laser0
        /\ pc \in {"rk_dispatch", "rk_dt", "an_dispatch", "an_init", "done"}
        /\ pc = "done" => exc = "UnboundLocalError"

\* a numerical call with a mode of the analytic method only has ended
C6_Witness ==
    /\ pc = "done"
    /\ arg.method = "stage_rk"
    /\ arg.mode = "Linear"
    /\ exc = "UnboundLocalError"
    /\ pool = "none"

\* C7: a Plasma Ramp call with non_rel=True ends at once with
\* NotImplementedError: no field model, no pool, the bunch as it was.
C7_NonRel ==
    (arg.method = "ramp_rk" /\ arg.non_rel) =>
        /\ pc \in {"ramp_dispatch", "done"}
        /\ pc = "done" => exc = "NotImplementedError"
        /\ WF = "unset"
        /\ pool = "none"
        /\ beam = beam0

\* a ramp call with non_rel=True and n_proc given has ended
C7_Witness ==
    /\ pc = "done"
    /\ arg.method = "ramp_rk"
    /\ arg.non_rel
    /\ arg.n_proc = MaxProc
    /\ exc = "NotImplementedError"

\* C8: a Plasma Ramp call with non_rel=False has built a Plasma-Ramp Blowout
\* Field once it is past the dispatch, ends only by returning `steps`
\* snapshots or on a failing step.
C8_RampBuildsField ==
    (arg.method = "ramp_rk" /\ ~arg.non_rel /\ pc # "ramp_dispatch") =>
        /\ WF = "PlasmaRampBlowoutField"
        /\ pc = "done" => exc \in {"none", "WorkerError"}
        /\ Returned => ret = arg.steps

\* C9: a Plasma Stage numerical call with a mode of its dispatch (and, for
\* FromPICCode, a simulation that can be read) ends with the field model the
\* mode names bound and the integration loop reached.
C9_ReachesLoop ==
    (/\ arg.method = "stage_rk"
     /\ arg.mode \in RKModes
     /\ arg.mode = "FromPICCode" => PICConstructs(arg)
     /\ pc = "done") =>
        /\ WF = StageFieldClass(arg.mode)
        /\ pool = "closed"

\* C10: the laser differs from what it was at the entry of the call only
\* after a completed analytic call, by the stage length in its propagation
\* distance and by (v_w - c)*t_final in xi_c.
C10_LaserFrame ==
    /\ hist.lw <= 1
    /\ laser # laser0 =>
         /\ arg.method = "stage_an"
         /\ pc \in {"an_return", "done"}
         /\ exc = "none"
    /\ (arg.method = "stage_an" /\ Returned) =>
         /\ laser.prop = RatAdd(laser0.prop, RatInt(arg.length))
         /\ laser.xi_c =
              RatAdd(laser0.xi_c,
                     RatMul(RatSub(RatMul(laser0.bw, RatInt(c)), RatInt(c)),
                            Rat(arg.length, c)))
         /\ laser.bw = laser0.bw

\* an analytic call has returned and the laser has slipped back
C10_Witness ==
    /\ Returned
    /\ arg.method = "stage_an"
    /\ RatLt(laser.xi_c, laser0.xi_c)
    /\ laser.prop = RatAdd(laser0.prop, RatInt(arg.length))

\* the evaluation recorded in evl has ended, with a value or by raising
Evaluated == evl.out.raised # "pending"

\* a <= v <= b
Within(v, a, b) == RatLeq(RatInt(a), v) /\ RatLeq(v, RatInt(b))

\* the point of the evaluation recorded in evl lies outside the grid of the
\* model: the box (x, y, xi) or (r, xi) of the simulation, with xi shifted
\* by (1-b_w)*c*t, or the (xi, r) grid of the cold-fluid model
EvalOutside ==
    LET r == RatInt(Radius(evl.x, evl.y))
        xs == RatAdd(evl.xi,
                     RatMul(RatSub(<<1, 1>>, laser.bw), RatMul(RatInt(c), evl.t)))
    IN  CASE evl.model = "PIC" /\ fld.geom = "3D" ->
               ~ (/\ Within(RatInt(evl.x), -GridMax, GridMax)
                  /\ Within(RatInt(evl.y), -GridMax, GridMax)
                  /\ Within(xs, 0, GridMax))
          [] evl.model = "PIC" /\ fld.geom = "thetaMode" ->
               ~ (Within(r, 0, GridMax) /\ Within(xs, 0, GridMax))
          [] evl.model = "ColdFluid" ->
               ~ (Within(evl.xi, 1, GridMax) /\ Within(r, 0, GridMax))
          [] OTHER -> FALSE

\* C11: an evaluator of a grid-interpolated field model (PIC-sourced in
\* either geometry, cold-fluid) called at a point outside the grid returns
\* exactly zero and does not raise.
C11_OutOfBoundsZero ==
    (Evaluated /\ EvalOutside) => evl.out = Value(<<0, 1>>)

\* C12: a bunch that a generator returns has the charges asked for: n_part
\* particles of charge q_tot/n_part, q_tot in C, summing to q_tot, from the
\* Twiss generator and the two generators that call it; the reader's charge
\* array as it is from get_from_file.
C12_ChargeSum ==
    gen.out.raised = "none" =>
        IF gen.fn = "get_from_file"
        THEN gen.out.q = gen.in.file.q
        ELSE /\ Len(gen.out.q) = gen.in.n_part
             /\ \A i \in 1..Len(gen.out.q) :
                  gen.out.q[i] = Sci(Rat(gen.in.q_tot, gen.in.n_part), -12)
             /\ SciSum(gen.out.q, -12) = Sci(RatInt(gen.in.q_tot), -12)

\* the matched generator has returned several particles whose charge is not
\* a whole number of pC
C12_Witness ==
    /\ gen.fn = "get_matched_bunch"
    /\ gen.out.raised = "none"
    /\ Len(gen.out.q) = MaxPart
    /\ gen.in.q_tot = 7
    /\ SciSum(gen.out.q, -12) = Sci(<<7, 1>>, -12)

\* C13: get_matched_bunch returns a bunch whichever of n_p and k_x is given:
\* its beta is the one of k_x when k_x is given and the one of the density
\* otherwise, the same in x and y, with alpha zero.
C13_MatchedBeta ==
    (gen.fn = "get_matched_bunch" /\ gen.out.raised # "pending") =>
        /\ gen.out.raised = "none"
        /\ gen.out.b_x =
             (IF gen.in.k_x # None
              THEN Beta("k_x", Sci(Rat(gen.in.ene, gen.in.k_x), 0))
              ELSE Beta("n_p", Sci(Rat(gen.in.ene, gen.in.n_p), 6)))
        /\ gen.out.b_y = gen.out.b_x
        /\ gen.out.a_x = 0
        /\ gen.out.a_y = 0

\* the step the blocks of the running step started from
StepInput(k) == IF k = 1 THEN beam0.ps ELSE beam_list[k - 1].ps

\* C14: snapshots come in step order. Snapshot k (the one of step k-1) is
\* the integration of snapshot k-1 (of the bunch for k = 1) and carries the
\* bunch's prop_distance at the entry plus k*L/steps; while blocks of a step
\* are out, its snapshot does not exist and the blocks are those of the
\* previous snapshot; the last snapshot's prop_distance is the bunch's after
\* the call.
C14_StepOrder ==
    (arg.method \in NumericalMethods /\ pc \in AfterSplit) =>
        /\ Len(beam_list) = loc.s
        /\ Len(beam_list) <= arg.steps
        /\ \A k \in 1..Len(beam_list) :
             /\ beam_list[k].prop =
                  RatAdd(beam0.prop, Rat(k * arg.length, arg.steps))
             /\ k > 1 => RatLt(beam_list[k - 1].prop, beam_list[k].prop)
             /\ beam_list[k].ps =
                  runge_kutta_4(StepInput(k), loc.dt_adjusted, loc.it_per_step)
        /\ pc \in {"rk_step", "rk_send", "rk_map"} =>
             Concatenate(matrix_list) = StepInput(loc.s + 1)
        /\ pc = "rk_map" =>
             \A p \in (1..Len(matrix_list)) \ inflight :
                 results[p] = runge_kutta_4(matrix_list[p], loc.dt_adjusted,
                                            loc.it_per_step)
        /\ pc = "rk_return" =>
             /\ Len(beam_list) = arg.steps
             /\ beam.prop = beam_list[arg.steps].prop

\* a call on several particles and processes has computed MaxSteps snapshots
\* and committed the bunch
C14_Witness ==
    /\ pc = "rk_return"
    /\ arg.steps = MaxSteps
    /\ loc.num_proc >= 2
    /\ Len(beam0.ps) >= 2
    /\ beam.prop = beam_list[MaxSteps].prop
    /\ RatLt(beam_list[1].prop, beam_list[2].prop)

\* a Plasma Stage call with auto_update_fields on a PIC-sourced model
AutoUpdate ==
    /\ arg.method = "stage_rk"
    /\ arg.auto
    /\ WF = "WakefieldFromPICSimulation"

\* C15: with auto-update, when the blocks of step s are handed out the
\* parent has issued s+1 checks, the last one for step s with time s*t_step,
\* and none is issued while blocks are out: the model the workers were sent
\* is the parent's, and every block that has come back was integrated
\* against its grid.
C15_RefreshBeforeDispatch ==
    /\ (AutoUpdate /\ pc \in AfterSplit) =>
         /\ pc = "rk_step" => chk.n = loc.s
         /\ pc \in {"rk_send", "rk_map"} =>
              /\ chk.n = loc.s + 1
              /\ chk.s = loc.s
              /\ chk.time = RatMul(RatInt(loc.s), loc.t_step)
         /\ pc = "rk_send" => inflight = {}
         /\ pc = "rk_map" =>
              /\ sent = fld
              /\ \A p \in (1..Len(matrix_list)) \ inflight :
                   used[p] = Grid(fld)
    /\ (pc \in AfterSplit /\ ~AutoUpdate) => chk.n = 0

\* the blocks of a later step have all come back, integrated against a grid
\* that a check of the call has loaded
C15_Witness ==
    /\ AutoUpdate
    /\ pc = "rk_map"
    /\ loc.s >= 1
    /\ inflight = {}
    /\ Len(matrix_list) >= 2
    /\ fld.loads >= 2
    /\ \A p \in 1..Len(matrix_list) : used[p] = Grid(fld)

\* the latest step of the list whose physical time is below time, 0 if none
LatestBelow(f, time) ==
    LET below == {i \in 1..Len(f.timesteps) :
                     RatLt(GetTimeInUnits(f.den, f.timesteps[i]), time)}
    IN  IF below = {} THEN 0 ELSE SetMax(below)

\* a step of the model in which check_if_update_fields was called
CheckStep == fld.geom # "none" /\ (chk' # chk \/ fld' # fld)

\* C16: in forward tracking a check at `time` loads the latest step whose
\* time is below `time` when that step lies after the current one, and
\* leaves the model as it is otherwise; the index of the current step never
\* decreases.
C16_ForwardRefresh ==
    [][(CheckStep /\ ~fld.reverse_tracking) =>
         LET latest == LatestBelow(fld, chk'.time)
             current == IndexOf(fld.timesteps, fld.current_ts)
         IN  /\ IF latest > current
                THEN /\ fld'.current_ts = fld.timesteps[latest]
                     /\ fld'.loads = fld.loads + 1
                     /\ fld'.W_x.data =
                          GetAllFieldData("Wx", fld.timesteps[latest])
                ELSE fld' = fld
             /\ fld'.timesteps = fld.timesteps
             /\ IndexOf(fld'.timesteps, fld'.current_ts) >= current]_vars

\* a forward check has loaded a later step
C16_Witness ==
    /\ fld.geom # "none"
    /\ ~fld.reverse_tracking
    /\ chk.time # NoChk.time
    /\ fld.loads = 2
    /\ fld.current_ts = GetTimeSteps[MaxTs]

\* C17: in reverse tracking the list of steps is the steps up to the initial
\* one, it does not change, and the current step only moves to an earlier
\* step of it.
C17_ReverseEarlier ==
    /\ fld.reverse_tracking =>
         fld.timesteps =
             SubSeq(GetTimeSteps, 1, IndexOf(GetTimeSteps, fld.current_ts))
    /\ [][(fld.geom # "none" /\ fld.reverse_tracking) =>
            /\ fld'.timesteps = fld.timesteps
            /\ fld'.current_ts <= fld.current_ts
            /\ fld'.current_ts <= fld.timesteps[Len(fld.timesteps)]
            /\ IndexOf(fld'.timesteps, fld'.current_ts)
                 <= IndexOf(fld.timesteps, fld.current_ts)]_vars

\* a reverse check has loaded an earlier step than the initial one
C17_Witness ==
    /\ fld.geom # "none"
    /\ fld.reverse_tracking
    /\ fld.loads = 2
    /\ fld.current_ts < fld.timesteps[Len(fld.timesteps)]

\* C18: the list of steps and the list of times of the PIC-sourced model
\* are aligned: the time at index i is the physical time of the step at
\* index i.
C18_Aligned ==
    fld.geom # "none" =>
        /\ Len(fld.timesteps_in_sec) = Len(fld.timesteps)
        /\ \A i \in 1..Len(fld.timesteps) :
             fld.timesteps_in_sec[i] = GetTimeInUnits(fld.den, fld.timesteps[i])

\* the density at the beam centre of the evaluation recorded in evl
EvalDensity ==
    density_function(cf["parent"].density_function,
                     RatAdd(RatMul(evl.t, RatInt(c)), evl.xi))

\* C19: an evaluation of the cold-fluid model at time t computes the grid
\* anew exactly when t is not the time of the evaluation before and the
\* density at the beam centre is not the cached one or the driver evolves;
\* otherwise the interpolators are the ones it had.
C19_Recompute ==
    (evl.model = "ColdFluid" /\ Evaluated) =>
        /\ evl.fresh <=>
             /\ evl.t # evl.pre_t
             /\ \/ EvalDensity # evl.pre_n_p
                \/ cf["parent"].driver_evolution
        /\ ~evl.fresh => evl.grid = evl.pre_grid

\* an evaluation at a new time has reused the grid of an earlier one
C19_Witness ==
    /\ evl.model = "ColdFluid"
    /\ Evaluated
    /\ ~evl.fresh
    /\ evl.t # evl.pre_t
    /\ evl.pre_n_p # 0
    /\ evl.grid = evl.pre_grid
    /\ evl.out.raised = "none"

EvalPoint ==
    LET xs == RatAdd(evl.xi,
                     RatMul(RatSub(<<1, 1>>, laser.bw), RatMul(RatInt(c), evl.t)))
    IN  IF fld.geom = "3D"
        THEN <<RatInt(evl.x), RatInt(evl.y), xs>>
        ELSE <<RatInt(Radius(evl.x, evl.y)), xs>>

\* C21: for a 3D and for a theta-mode simulation each of Wx, Wy, Wz and Kx
\* of the PIC-sourced model returns a value and does not raise; Wz and Kx
\* are the longitudinal field and the gradient read at the mapped point, and
\* in theta-mode Wx and Wy the transverse field read there times sin(theta)
\* and cos(theta).
C21_EvaluatorsReturn ==
    (Evaluated /\ evl.model = "PIC") =>
        /\ evl.out.raised = "none"
        /\ evl.comp = "Wz" => evl.out.val = Interpolate(fld.E_z, EvalPoint)
        /\ evl.comp = "Kx" => evl.out.val = Interpolate(fld.K_x, EvalPoint)
        /\ (evl.comp = "Wx" /\ fld.geom = "thetaMode") =>
             evl.out.val = RatMul(Interpolate(fld.W_x, EvalPoint),
                                  SinTheta(evl.x, evl.y))
        /\ (evl.comp = "Wy" /\ fld.geom = "thetaMode") =>
             evl.out.val = RatMul(Interpolate(fld.W_x, EvalPoint),
                                  CosTheta(evl.x, evl.y))

\* the time every particle of the columns ps has been integrated over since
\* the entry of the call is d
IntegratedFor(ps, d) ==
    /\ Len(ps) = Len(beam0.ps)
    /\ \A i \in 1..Len(ps) : RatSub(ps[i].t, beam0.ps[i].t) = d

\* C22: the integration windows tile the transit time. One step integrates
\* over it_per_step*dt_adjusted = t_step = t_final/steps; the blocks of step
\* s have been integrated up to s*t_step, the time their integration is
\* started at, and come back integrated up to (s+1)*t_step, where step s+1
\* starts; the last snapshot has been integrated over t_final.
C22_WindowsTile ==
    (arg.method \in NumericalMethods /\ pc \in AfterIterations) =>
        /\ RatMul(RatInt(loc.it_per_step), loc.dt_adjusted) = loc.t_step
        /\ loc.t_step = RatDiv(loc.t_final, RatInt(arg.steps))
        /\ T0(arg.steps, loc.t_step) = loc.t_final
        /\ pc \in {"rk_step", "rk_send", "rk_map"} =>
             IntegratedFor(Concatenate(matrix_list), T0(loc.s, loc.t_step))
        /\ pc = "rk_map" =>
             \A p \in (1..Len(matrix_list)) \ inflight :
                 \A j \in 1..Len(results[p]) :
                     RatSub(results[p][j].t, matrix_list[p][j].t) =
                         RatSub(T0(loc.s + 1, loc.t_step),
                                T0(loc.s, loc.t_step))
        /\ \A k \in 1..Len(beam_list) :
               IntegratedFor(beam_list[k].ps, T0(k, loc.t_step))
        /\ pc = "rk_return" =>
               IntegratedFor(beam_list[arg.steps].ps, loc.t_final)

\* a call of MaxSteps steps has returned after several iterations per step,
\* the iteration count of the heuristic not being a multiple of the steps
C22_Witness ==
    /\ pc = "rk_return"
    /\ arg.method \in NumericalMethods
    /\ arg.steps = MaxSteps
    /\ loc.it_per_step >= 2
    /\ Iterations(loc.t_final, loc.dt) % arg.steps # 0
    /\ IntegratedFor(beam_list[arg.steps].ps, loc.t_final)
    /\ RatLt(<<0, 1>>, loc.t_final)

\* C23: the adjusted step, t_final over the iteration count rounded down to
\* a multiple of steps (at least steps), is strictly smaller than twice the
\* step dt of the heuristic.
C23_StepBelowTwice ==
    (arg.method \in NumericalMethods /\ pc \in AfterIterations) =>
        LET n == RatFloor(RatDiv(loc.t_final, loc.dt))
        IN  /\ loc.dt_adjusted =
                 RatDiv(loc.t_final, RatInt(Max(n \div arg.steps, 1) * arg.steps))
            /\ RatLt(loc.dt_adjusted, RatMul(RatInt(2), loc.dt))

\* the rounding has dropped iterations and left a step larger than dt
C23_Witness ==
    /\ arg.method \in NumericalMethods
    /\ pc \in AfterIterations
    /\ arg.steps >= 2
    /\ RatFloor(RatDiv(loc.t_final, loc.dt)) > arg.steps
    /\ RatFloor(RatDiv(loc.t_final, loc.dt)) % arg.steps # 0
    /\ RatLt(loc.dt, loc.dt_adjusted)
    /\ RatLt(loc.dt_adjusted, RatMul(RatInt(2), loc.dt))

====
